---- MODULE Spec2Model ----
(***************************************************************************)
(* igvm command orchestration layer: the Transaction rollback engine       *)
(* (igvm/transaction.py), Host.run / Host.file_exists (igvm/host.py), the  *)
(* libvirt connection cache (utils/virtutils.py) and the lifecycle         *)
(* commands with their precondition check (igvm/commands.py).              *)
(*                                                                         *)
(* The four components share no state.  Each has its own variables, its    *)
(* own initial condition and actions, and its own specification in which   *)
(* the other components stay as constructed.                               *)
(***************************************************************************)
EXTENDS Naturals, Sequences, FiniteSets, TLC

(***************************************************************************)
(* Bounds of the exploration.                                              *)
(***************************************************************************)
\* Most compensators registered in the open scopes of one object, taken
\* together.
MaxActions == 2
\* Calls of Host.run / Host.file_exists made on one Host.
MaxCalls == 2
\* A direct rollback() call is explored while the invocation log of the
\* scope and the list it is about to replay hold at most this many entries.
MaxInvoked == 2
\* with-statements on one Transaction object open at the same time.
MaxDepth == 2

VARIABLES
    \* ---- Transaction (igvm/transaction.py) ----
    actions,      \* self._actions: None, or Some(list of compensator names)
    txpc,         \* where the with-statement stands: "new", "body", "exited"
    scopes,       \* history: per with-block on the object entered and not
                  \* yet left, outermost first, the names registered in it
    registered,   \* history: the names registered in the block left last
    invoked,      \* history: compensator calls since __enter__, oldest first
    exitFrom,     \* history: Len(invoked) when __exit__ was called
    exitCause,    \* history: the failure __exit__ was called with
    observed,     \* what the with-statement raises to its caller
    txRaised,     \* what the last direct call of on_rollback/rollback raised
    lateAppended, \* history: names on_rollback appended during __exit__'s pass
    \* ---- Host.run / Host.file_exists (igvm/host.py) ----
    runLog,       \* history: the finished calls on one Host, oldest first
    \* ---- connection cache (utils/virtutils.py) ----
    conns,        \* _conns: (hypervisor, host) -> connection object
    handles,      \* the connection objects libvirt.open returned, in order
    returned,     \* history: per key, the objects get_virtconn returned
    lastCall,     \* history: the last finished call and its result
    prevOp,       \* history: the operation finished before the last one
    thread,       \* position of each thread inside get_virtconn
    \* ---- one VM and the lifecycle commands (igvm/commands.py) ----
    vmHypervisor, \* vm.hypervisor: None, or Some(hypervisor)
    vmState,      \* vm.dataset_obj['state'], the inventory tag
    hvDefined,    \* the hypervisors on which the VM's domain is defined
    vmRunning,    \* the domain runs on the assigned hypervisor
    inv,          \* the committed inventory record: num_cpu, memory, disk
    invPresent,   \* the inventory still holds the VM's record
    hvAlloc,      \* what the hypervisor has allocated: num_cpu, memory, disk
    hvTags,       \* the inventory tag of every hypervisor
    cmd           \* history: the last finished call and its result

txVars == <<actions, txpc, scopes, registered, invoked, exitFrom,
            exitCause,
            observed, txRaised, lateAppended>>

runVars == <<runLog>>

connVars == <<conns, handles, returned, lastCall, prevOp, thread>>

vmVars == <<vmHypervisor, vmState, hvDefined, vmRunning, inv, invPresent,
           hvAlloc, hvTags, cmd>>

vars == <<txVars, runVars, connVars, vmVars>>

(***************************************************************************)
(* Python values.                                                          *)
(***************************************************************************)
\* None and a present value, as a sequence of length 0 or 1.
None == <<>>
Some(x) == <<x>>
Value(opt) == opt[1]

\* No exception.
NoFailure == "none"

(***************************************************************************)
(* Transaction                                                              *)
(***************************************************************************)
\* Names the commands give their compensators.
Names == {"undo_a", "undo_b"}

\* Failures that leave the body of a with-block.
BodyFailures == {"InvalidStateError", "RemoteCommandError"}

\* What a compensator does when called: return, raise an Exception, or
\* call on_rollback on its own transaction (registering itself again) and
\* return.
Behaviours == {"ok", "raise", "register"}

\* The Exception a failing compensator raises.
CompensatorError == "CompensatorError"

\* reversed(list): the iteration order of rollback().  Python's list
\* reverse iterator starts at the last index the list has when it is
\* created and walks down, so entries appended during the walk are not
\* visited.
reversed(s) == [i \in 1..Len(s) |-> s[Len(s) + 1 - i]]

\* "except Exception" around the compensator call: every Exception a
\* compensator raises is caught (and logged as a warning).
Caught(exc) == exc = CompensatorError

\* An __exit__ that rolls back on every exit, the slip C2 must detect.
RollsBackAlways(traceback) == TRUE
\* "if traceback:" in __exit__: rollback runs when, and only when, the
\* scope is left by an exception.
RollsBack(traceback) == traceback # NoFailure

\* The loop of rollback() from position k of the iteration order: the calls
\* made, the names registered by compensators meanwhile, and the exception
\* that left the loop (none, since every Exception is caught).
RECURSIVE RollbackLoop(_, _, _)
RollbackLoop(order, outs, k) ==
    IF k > Len(order)
    THEN [inv |-> <<>>, added |-> <<>>, raised |-> NoFailure]
    ELSE LET call == [name |-> order[k], outcome |-> outs[k]]
         IN  IF outs[k] = "raise" /\ ~Caught(CompensatorError)
             THEN [inv |-> <<call>>, added |-> <<>>,
                   raised |-> CompensatorError]
             ELSE LET rest == RollbackLoop(order, outs, k + 1)
                  IN  [inv |-> <<call>> \o rest.inv,
                       added |-> (IF outs[k] = "register"
                                  THEN <<order[k]>> ELSE <<>>) \o rest.added,
                       raised |-> rest.raised]

\* Transaction.rollback() on a list of compensators, outs[k] being what the
\* k-th compensator called does.
rollback(list, outs) == RollbackLoop(reversed(list), outs, 1)

\* What the with-statement raises after __exit__(traceback): an exception
\* leaving __exit__ replaces the one in flight; otherwise __exit__ returns
\* None, which does not suppress the exception in flight.
Propagated(traceback, exitRaised) ==
    IF exitRaised # NoFailure THEN exitRaised ELSE traceback

\* The with-blocks on the object that are open, and the history of the
\* innermost one after names were appended to self._actions.
depth == Len(scopes)
RECURSIVE Pending(_)
Pending(stack) ==
    IF stack = <<>> THEN 0 ELSE Len(Head(stack)) + Pending(Tail(stack))
Noted(stack, names) ==
    IF stack = <<>> THEN stack
    ELSE [stack EXCEPT ![Len(stack)] = @ \o names]

\* Transaction.__init__
TxInit ==
    /\ actions = None
    /\ txpc = "new"
    /\ scopes = <<>>
    /\ registered = <<>>
    /\ invoked = <<>>
    /\ exitFrom = 0
    /\ exitCause = NoFailure
    /\ observed = NoFailure
    /\ txRaised = NoFailure
    /\ lateAppended = <<>>

\* Transaction.__enter__ ("with tx:"): assigns a fresh list whatever the
\* state of the object, fresh, exited or inside an open scope (a nested
\* "with tx:" on the same object), and so drops what the open scope had
\* registered.
Enter ==
    /\ depth < MaxDepth
    /\ actions' = Some(<<>>)
    /\ txpc' = "body"
    /\ scopes' = Append(scopes, <<>>)
    /\ registered' = <<>>
    /\ invoked' = <<>>
    /\ exitFrom' = 0
    /\ exitCause' = NoFailure
    /\ observed' = NoFailure
    /\ txRaised' = NoFailure
    /\ lateAppended' = <<>>

\* Transaction.on_rollback(name, fn): asserts fn callable, then appends to
\* self._actions; on None the append raises AttributeError.
OnRollback(name, isCallable) ==
    /\ IF ~isCallable
       THEN /\ txRaised' = "AssertionError"
            /\ UNCHANGED <<actions, scopes>>
       ELSE IF actions = None
       THEN /\ txRaised' = "AttributeError"
            /\ UNCHANGED <<actions, scopes>>
       ELSE /\ Pending(scopes) < MaxActions
            /\ actions' = Some(Append(Value(actions), name))
            /\ scopes' = Noted(scopes, <<name>>)
            /\ txRaised' = NoFailure
    /\ UNCHANGED <<txpc, registered, invoked, exitFrom, exitCause, observed,
                   lateAppended>>

\* Transaction.rollback() called directly: reversed(None) raises TypeError;
\* on a list the compensators run and the list is kept.
RollbackCall ==
    IF actions = None
    THEN /\ txRaised' = "TypeError"
         /\ UNCHANGED <<actions, txpc, scopes, registered, invoked, exitFrom,
                        exitCause, observed, lateAppended>>
    ELSE \E outs \in [1..Len(Value(actions)) -> Behaviours] :
           LET rb == rollback(Value(actions), outs)
           IN  /\ Len(invoked) + Len(Value(actions)) <= MaxInvoked
               /\ Pending(scopes) + Len(rb.added) <= MaxActions
               /\ invoked' = invoked \o rb.inv
               /\ actions' = Some(Value(actions) \o rb.added)
               /\ scopes' = Noted(scopes, rb.added)
               /\ txRaised' = rb.raised
               /\ UNCHANGED <<txpc, registered, exitFrom, exitCause,
                              observed, lateAppended>>

\* Transaction.__exit__(type, value, traceback): the end of a with-block,
\* normal (traceback = NoFailure) or by a failure of the body.  When a
\* nested with-block on the same object has already set self._actions to
\* None, rollback() raises TypeError from reversed(None), which leaves
\* __exit__ before the assignment and replaces the failure in flight.
Exit(traceback) ==
    /\ depth > 0
    /\ IF RollsBack(traceback) /\ actions = None
       THEN /\ invoked' = invoked
            /\ exitFrom' = Len(invoked)
            /\ actions' = actions
            /\ observed' = Propagated(traceback, "TypeError")
            /\ lateAppended' = <<>>
       ELSE LET list == IF actions = None THEN <<>> ELSE Value(actions)
            IN  \E outs \in [1..Len(list) -> Behaviours] :
                  LET rb == IF RollsBack(traceback)
                            THEN rollback(list, outs)
                            ELSE [inv |-> <<>>, added |-> <<>>,
                                  raised |-> NoFailure]
                  IN  /\ invoked' = invoked \o rb.inv
                      /\ exitFrom' = Len(invoked)
                      /\ actions' = IF rb.raised # NoFailure
                                    THEN Some(list \o rb.added)
                                    ELSE None
                      /\ observed' = Propagated(traceback, rb.raised)
                      /\ lateAppended' = rb.added
    /\ exitCause' = traceback
    /\ registered' = scopes[depth]
    /\ scopes' = SubSeq(scopes, 1, depth - 1)
    /\ txpc' = IF depth = 1 THEN "exited" ELSE "body"
    /\ UNCHANGED txRaised


(***************************************************************************)
(* C1: a Transaction that registered C1..Cn in its scope and is exited by  *)
(* a failure has its compensators invoked by that exit in exactly the      *)
(* order Cn..C1, each once, whatever each of them does (return, raise,     *)
(* register): a raising compensator does not stop the earlier-registered   *)
(* ones.  Stated for the outermost with-block of the object.  It holds as  *)
(* long as the object is not entered again inside its open scope; a        *)
(* nested "with tx:" makes __enter__ replace the list, the compensators    *)
(* registered so far are dropped, and the outer exit invokes none of them. *)
(***************************************************************************)
C1_RollbackIsLifo ==
    (txpc = "exited" /\ exitCause # NoFailure) =>
        /\ Len(invoked) - exitFrom = Len(registered)
        /\ \A i \in 1..Len(registered) :
             invoked[exitFrom + i].name = registered[Len(registered) + 1 - i]

(***************************************************************************)
(* C2: a with-block on a Transaction that ends without a failure invokes   *)
(* no compensator at its exit, however many were registered in it; the     *)
(* list is discarded (self._actions is None) and nothing is raised.  This  *)
(* holds for every with-block on the object, nested ones included.         *)
(***************************************************************************)
C2_NormalExitRunsNothing ==
    [][(Len(scopes') < Len(scopes) /\ exitCause' = NoFailure)
       => /\ invoked' = invoked
          /\ actions' = None
          /\ observed' = NoFailure]_vars

\* A scope that registered two compensators and ended normally.
C2_Witness ==
    /\ txpc = "exited"
    /\ exitCause = NoFailure
    /\ Len(registered) >= 2
    /\ invoked = <<>>
    /\ actions = None

(***************************************************************************)
(* C3: after a scope is exited by a failure, the caller observes that      *)
(* original failure: rollback does not suppress it and no compensator's    *)
(* failure replaces it.  Stated for the outermost with-block.  No          *)
(* compensator's failure ever replaces it (each is caught); but after a    *)
(* nested "with tx:" on the same object has exited, self._actions is None  *)
(* and rollback() itself raises TypeError from reversed(None), which the   *)
(* caller observes in place of the original failure.                       *)
(***************************************************************************)
C3_OriginalFailureObserved ==
    (txpc = "exited" /\ exitCause # NoFailure) => observed = exitCause

(***************************************************************************)
(* C18: on_rollback appends only while the scope is open: a call made      *)
(* before the scope is entered, while the rollback pass of __exit__ is     *)
(* running (from inside a compensator), or after the scope has exited is   *)
(* rejected and registers nothing.  The code rejects the call only when    *)
(* self._actions is None, which it is before __enter__ and after           *)
(* __exit__; during the rollback pass the list is still there and the      *)
(* append goes through.                                                    *)
(***************************************************************************)
C18_RegistersOnlyWhileOpen ==
    /\ txpc \in {"new", "exited"} => actions = None
    /\ txpc = "new" => scopes = <<>>
    /\ lateAppended = <<>>

(***************************************************************************)
(* C19: the exited state is terminal: once __exit__ has returned, no       *)
(* operation (entering again, on_rollback, rollback) brings the            *)
(* transaction back into an open scope or runs a compensator.  The code's  *)
(* __enter__ assigns a fresh list whatever the state, so "with tx:" on an  *)
(* exited transaction opens it again.                                      *)
(***************************************************************************)
C19_ExitedIsTerminal ==
    [][txpc = "exited" => (txpc' = "exited" /\ invoked' = invoked
                                            /\ actions' = None)]_vars

(***************************************************************************)
(* Host.run and Host.file_exists                                           *)
(***************************************************************************)
Commands == {"virsh list", "mkdir /mnt"}
Paths == {"/etc/hosts", "/dev/vg0/vm"}

\* What one execution of fabric's sudo()/run() meets: exit status zero, a
\* non-zero exit status, or a lost connection.
RunOutcomes == {"zero", "nonzero", "disconnect"}
\* What one execution of fabric's files.exists() meets.
ExistsOutcomes == {"present", "absent", "disconnect"}

\* transport.socket.error, raised by paramiko when the connection is lost.
SocketError == "socket.error"

\* fabric_settings(): 'abort_exception': RemoteCommandError, the exception
\* fabric raises for a failed command.
AbortException == "RemoteCommandError"

Return(v) == [kind |-> "return", value |-> v]
Raise(e) == [kind |-> "raise", value |-> e]

\* fabric.api.sudo(...) / fabric.api.run(...) under the settings of
\* Host.run: with warn_only a non-zero exit is returned as a failed result,
\* without it fabric aborts with the abort exception.
Execute(outcome, warn_only) ==
    CASE outcome = "zero" -> Return("succeeded")
      [] outcome = "nonzero" ->
            IF warn_only THEN Return("failed") ELSE Raise(AbortException)
      [] outcome = "disconnect" -> Raise(SocketError)

\* files.exists(...) under fabric_settings().
Exists(outcome) ==
    CASE outcome = "present" -> Return("True")
      [] outcome = "absent" -> Return("False")
      [] outcome = "disconnect" -> Raise(SocketError)

\* A bare "except:", the slip C5 must detect.
CatchesAnyError(result) == result.kind = "raise"
\* "except transport.socket.error": the only failure that is retried.
CatchesSocketError(result) ==
    result.kind = "raise" /\ result.value = SocketError

\* The body of Host.run: kwargs with_sudo (default True) picks sudo() or
\* run(); a socket error of the first execution closes the cached transport
\* of the host, if there is one, and executes the same call once more,
\* whose return value or exception is the call's.
run(command, with_sudo, warn_only, first, second, inConnections) ==
    LET one == Execute(first, warn_only)
        retry == CatchesSocketError(one)
        try(outcome) == [command |-> command, sudo |-> with_sudo,
                         outcome |-> outcome]
    IN  [op |-> "run", warn_only |-> warn_only,
         attempts |-> IF retry THEN <<try(first), try(second)>>
                      ELSE <<try(first)>>,
         closedTransport |-> retry /\ inConnections,
         result |-> IF retry THEN Execute(second, warn_only) ELSE one]

\* The body of Host.file_exists: files.exists with the same single retry.
file_exists(path, first, second, inConnections) ==
    LET one == Exists(first)
        retry == CatchesSocketError(one)
        try(outcome) == [command |-> path, sudo |-> FALSE,
                         outcome |-> outcome]
    IN  [op |-> "file_exists", warn_only |-> FALSE,
         attempts |-> IF retry THEN <<try(first), try(second)>>
                      ELSE <<try(first)>>,
         closedTransport |-> retry /\ inConnections,
         result |-> IF retry THEN Exists(second) ELSE one]

RunInit == runLog = <<>>

\* Host.run(command, with_sudo=..., warn_only=...)
Run ==
    /\ Len(runLog) < MaxCalls
    /\ \E command \in Commands, with_sudo \in BOOLEAN, warn_only \in BOOLEAN,
          first \in RunOutcomes, second \in RunOutcomes,
          inConnections \in BOOLEAN :
         runLog' = Append(runLog, run(command, with_sudo, warn_only,
                                      first, second, inConnections))

\* Host.file_exists(path)
FileExists ==
    /\ Len(runLog) < MaxCalls
    /\ \E path \in Paths, first \in ExistsOutcomes, second \in ExistsOutcomes,
          inConnections \in BOOLEAN :
         runLog' = Append(runLog, file_exists(path, first, second,
                                              inConnections))

(***************************************************************************)
(* C4: a call whose first attempt is disconnected makes exactly one more   *)
(* attempt, of the same command with the same privilege mode, and returns  *)
(* the retry's result if the retry succeeds; if the retry is disconnected  *)
(* too the call fails with the remote-command error; no call makes more    *)
(* than two attempts.                                                      *)
(***************************************************************************)
C4_RetryOnceThenRemoteError ==
    \A i \in 1..Len(runLog) :
      LET c == runLog[i]
      IN  /\ Len(c.attempts) <= 2
          /\ c.attempts[1].outcome = "disconnect" =>
               /\ Len(c.attempts) = 2
               /\ c.attempts[2].command = c.attempts[1].command
               /\ c.attempts[2].sudo = c.attempts[1].sudo
               /\ c.attempts[2].outcome \in {"zero", "present", "absent"} =>
                    c.result.kind = "return"
               /\ c.attempts[2].outcome = "disconnect" =>
                    c.result = Raise(AbortException)

(***************************************************************************)
(* C5: run never retries a command-level failure: an attempt that exits    *)
(* non-zero (without warn_only) is the call's last attempt, first attempt  *)
(* or retry alike, and the call raises the remote-command error.           *)
(***************************************************************************)
C5_CommandFailureNotRetried ==
    \A i \in 1..Len(runLog) :
      LET c == runLog[i]
      IN  \A k \in 1..Len(c.attempts) :
            (c.attempts[k].outcome = "nonzero" /\ ~c.warn_only) =>
                /\ k = Len(c.attempts)
                /\ c.result = Raise(AbortException)

\* One call failed on its first attempt, another on the retry after a
\* disconnect.
C5_Witness ==
    /\ Len(runLog) = 2
    /\ ~runLog[1].warn_only /\ ~runLog[2].warn_only
    /\ Len(runLog[1].attempts) = 1
    /\ runLog[1].attempts[1].outcome = "nonzero"
    /\ Len(runLog[2].attempts) = 2
    /\ runLog[2].attempts[1].outcome = "disconnect"
    /\ runLog[2].attempts[2].outcome = "nonzero"
    /\ runLog[2].result = Raise(AbortException)

(***************************************************************************)
(* Connection cache                                                        *)
(***************************************************************************)
Hosts == {"hv1.ig.local", "hv2.ig.local", "hv3.ig.local"}
Drivers == {"kvm", "xen"}
Threads == {"t1", "t2"}

\* A get_virtconn without its driver test, the slip C7 must detect.
SupportsAny(hypervisor) == TRUE
\* "if hypervisor != 'kvm': raise ValueError"
Supported(hypervisor) == hypervisor = "kvm"

\* index = (hypervisor, host)
Index(host, hypervisor) == <<hypervisor, host>>
Keys == {Index(h, d) : h \in Hosts, d \in Drivers}

\* A get_virtconn that never finds its key, the slip C6 must detect.
MissAlways(cache, index) == TRUE
\* "if index not in _conns"
Miss(cache, index) == index \notin DOMAIN cache

\* _conns[index] = conn
Store(cache, index, conn) ==
    [k \in DOMAIN cache \cup {index} |-> IF k = index THEN conn ELSE cache[k]]

\* libvirt.open(url): a new connection object, numbered by its position in
\* handles, live until closed.
Opened(objs, index) == Append(objs, [key |-> index, state |-> "open"])

\* The connection objects opened for a key, and the live ones among them.
ChannelsOf(objs, index) == {i \in 1..Len(objs) : objs[i].key = index}
LiveOf(objs, index) == {i \in ChannelsOf(objs, index) : objs[i].state = "open"}

\* get_virtconn(host, hypervisor) run from start to end; openOk tells
\* whether libvirt.open, if it is called, succeeds (it raises libvirtError
\* otherwise).
get_virtconn(cache, objs, host, hypervisor, openOk) ==
    LET index == Index(host, hypervisor)
        call(result, opened) ==
            [op |-> "get", driver |-> hypervisor, host |-> host,
             result |-> result, opened |-> opened, attempts |-> <<>>]
    IN  IF ~Supported(hypervisor)
        THEN [conns |-> cache, handles |-> objs,
              call |-> call(Raise("ValueError"), FALSE)]
        ELSE IF Miss(cache, index)
        THEN IF openOk
             THEN [conns |-> Store(cache, index, Len(objs) + 1),
                   handles |-> Opened(objs, index),
                   call |-> call(Return(Len(objs) + 1), TRUE)]
             ELSE [conns |-> cache, handles |-> objs,
                   call |-> call(Raise("libvirtError"), FALSE)]
        ELSE [conns |-> cache, handles |-> objs,
              call |-> call(Return(cache[index]), FALSE)]

\* A close() without its try/except, the slip C8 must detect.
SwallowsNothing(error) == FALSE
\* "except libvirt.libvirtError: pass" around conn.close()
Swallows(error) == error = "libvirtError"

\* conn.close() of the libvirt binding drops the object's handle whether
\* or not it then raises libvirtError: the object is closed afterwards.
Closed(objs, conn) == [objs EXCEPT ![conn].state = "closed"]

\* The loop of close_virtconns() from position k of _conns.values():
\* outs[k] is "ok" or the error the k-th close() raises.
RECURSIVE CloseLoop(_, _, _, _)
CloseLoop(objs, values, outs, k) ==
    IF k > Len(values)
    THEN [handles |-> objs, attempts |-> <<>>, result |-> Return("None")]
    ELSE LET try == [conn |-> values[k], outcome |-> outs[k]]
             after == Closed(objs, values[k])
         IN  IF outs[k] # "ok" /\ ~Swallows(outs[k])
             THEN [handles |-> after, attempts |-> <<try>>,
                   result |-> Raise(outs[k])]
             ELSE LET rest == CloseLoop(after, values, outs, k + 1)
                  IN  [handles |-> rest.handles,
                       attempts |-> <<try>> \o rest.attempts,
                       result |-> rest.result]

\* close_virtconns(): values is _conns.values() in the order the dict
\* yields it.
close_virtconns(objs, values, outs) == CloseLoop(objs, values, outs, 1)

\* The orders in which a dict may yield its values.
ValueOrders(cache) ==
    LET n == Cardinality(DOMAIN cache)
    IN  {[i \in 1..n |-> cache[ks[i]]] :
           ks \in {f \in [1..n -> DOMAIN cache] :
                     \A i, j \in 1..n : f[i] = f[j] => i = j}}

NoCall == [op |-> "none", driver |-> "", host |-> "",
           result |-> Return("None"), opened |-> FALSE, attempts |-> <<>>]
Idle == [pc |-> "idle", host |-> "", driver |-> "", conn |-> 0]

\* _conns = {} at import
ConnInit ==
    /\ conns = [k \in {} |-> 0]
    /\ handles = <<>>
    /\ returned = [k \in Keys |-> {}]
    /\ lastCall = NoCall
    /\ prevOp = "none"
    /\ thread = [t \in Threads |-> Idle]

Record(call) ==
    /\ lastCall' = call
    /\ prevOp' = lastCall.op
    /\ returned' = IF call.op = "get" /\ call.result.kind = "return"
                   THEN [returned EXCEPT ![Index(call.host, call.driver)] =
                                             @ \cup {call.result.value}]
                   ELSE returned

\* One whole call of get_virtconn, nothing else running.
GetVirtconn ==
    \E host \in Hosts, hypervisor \in Drivers, openOk \in BOOLEAN :
       LET r == get_virtconn(conns, handles, host, hypervisor, openOk)
       IN  /\ conns' = r.conns
           /\ handles' = r.handles
           /\ Record(r.call)
           /\ UNCHANGED thread

\* _conns once close_virtconns has returned: the loop reads
\* _conns.values() and assigns nothing (compared with a close that
\* empties the dict).
CacheCleared(cache) == [k \in {} |-> 0]
CacheAfterClose(cache) == cache

\* One whole call of close_virtconns, nothing else running.
CloseVirtconns ==
    \E values \in ValueOrders(conns) :
      \E outs \in [1..Len(values) -> {"ok", "libvirtError"}] :
        LET r == close_virtconns(handles, values, outs)
        IN  /\ handles' = r.handles
            /\ Record([op |-> "close", driver |-> "", host |-> "",
                       result |-> r.result, opened |-> FALSE,
                       attempts |-> r.attempts])
            /\ conns' = CacheAfterClose(conns)
            /\ UNCHANGED thread

(***************************************************************************)
(* C6: after any sequence of get_virtconn and close_virtconns calls, each  *)
(* (driver, host) key has had at most one channel opened, has at most one  *)
(* live connection, and has had one and the same connection object         *)
(* returned by every get_virtconn call.                                    *)
(***************************************************************************)
C6_OneConnectionPerKey ==
    \A key \in Keys :
      /\ Cardinality(ChannelsOf(handles, key)) <= 1
      /\ Cardinality(LiveOf(handles, key)) <= 1
      /\ Cardinality(returned[key]) <= 1

\* A call served from the cache while two keys are cached.
C6_Witness ==
    /\ lastCall.op = "get"
    /\ lastCall.result.kind = "return"
    /\ ~lastCall.opened
    /\ Cardinality(DOMAIN conns) >= 2
    /\ returned[Index(lastCall.host, lastCall.driver)] =
           {lastCall.result.value}

(***************************************************************************)
(* C7: get_virtconn with a driver other than kvm raises the                *)
(* unsupported-driver error (ValueError) for every host, cached or not,    *)
(* opens no channel and leaves the cache as it was.                        *)
(***************************************************************************)
C7_UnsupportedDriverFails ==
    [][(lastCall'.op = "get" /\ lastCall'.driver # "kvm") =>
          /\ lastCall'.result = Raise("ValueError")
          /\ conns' = conns
          /\ handles' = handles]_vars

\* The unsupported driver was asked for a host that has a cached
\* connection, while another host has none.
C7_Witness ==
    /\ lastCall.op = "get"
    /\ lastCall.driver # "kvm"
    /\ lastCall.result = Raise("ValueError")
    /\ Index(lastCall.host, "kvm") \in DOMAIN conns
    /\ \E h \in Hosts : Index(h, "kvm") \notin DOMAIN conns

(***************************************************************************)
(* C8: close_virtconns calls close() on every cached connection, returns   *)
(* normally whatever the individual closes raise, leaves every cached      *)
(* connection closed and the cache as it was; called again right after, it *)
(* returns normally and changes no connection.                             *)
(***************************************************************************)
C8_CloseAllBestEffort ==
    [][lastCall'.op = "close" =>
          /\ lastCall'.result = Return("None")
          /\ {lastCall'.attempts[i].conn : i \in 1..Len(lastCall'.attempts)}
                = {conns[k] : k \in DOMAIN conns}
          /\ Len(lastCall'.attempts) = Cardinality(DOMAIN conns)
          /\ \A k \in DOMAIN conns : handles'[conns[k]].state = "closed"
          /\ conns' = conns
          /\ lastCall.op = "close" => handles' = handles]_vars

\* A second close_virtconns in a row, over two cached connections, the
\* first of which raised on close.
C8_Witness ==
    /\ lastCall.op = "close"
    /\ prevOp = "close"
    /\ Len(lastCall.attempts) >= 2
    /\ lastCall.attempts[1].outcome = "libvirtError"
    /\ lastCall.result = Return("None")

\* get_virtconn run by thread t, one statement at a time, with nothing
\* keeping other threads out: the driver test and the cache lookup ...
GvCall(t) ==
    /\ thread[t].pc = "idle"
    /\ \E host \in Hosts, hypervisor \in Drivers :
         LET index == Index(host, hypervisor)
             call(result) ==
                 [op |-> "get", driver |-> hypervisor, host |-> host,
                  result |-> result, opened |-> FALSE, attempts |-> <<>>]
         IN  IF ~Supported(hypervisor)
             THEN Record(call(Raise("ValueError"))) /\ UNCHANGED thread
             ELSE IF Miss(conns, index)
             THEN /\ thread' = [thread EXCEPT ![t] =
                        [pc |-> "open", host |-> host, driver |-> hypervisor,
                         conn |-> 0]]
                  /\ UNCHANGED <<lastCall, prevOp, returned>>
             ELSE Record(call(Return(conns[index]))) /\ UNCHANGED thread
    /\ UNCHANGED <<conns, handles>>

\* ... libvirt.open(url) ...
GvOpen(t) ==
    /\ thread[t].pc = "open"
    /\ \E openOk \in BOOLEAN :
         IF openOk
         THEN /\ handles' = Opened(handles,
                                   Index(thread[t].host, thread[t].driver))
              /\ thread' = [thread EXCEPT ![t].pc = "store",
                                          ![t].conn = Len(handles) + 1]
              /\ UNCHANGED <<lastCall, prevOp, returned>>
         ELSE /\ Record([op |-> "get", driver |-> thread[t].driver,
                         host |-> thread[t].host,
                         result |-> Raise("libvirtError"), opened |-> FALSE,
                         attempts |-> <<>>])
              /\ thread' = [thread EXCEPT ![t] = Idle]
              /\ UNCHANGED handles
    /\ UNCHANGED conns

\* ... _conns[index] = <the opened connection> ...
GvStore(t) ==
    /\ thread[t].pc = "store"
    /\ conns' = Store(conns, Index(thread[t].host, thread[t].driver),
                      thread[t].conn)
    /\ thread' = [thread EXCEPT ![t].pc = "return"]
    /\ UNCHANGED <<handles, lastCall, prevOp, returned>>

\* ... return _conns[index]
GvReturn(t) ==
    /\ thread[t].pc = "return"
    /\ Record([op |-> "get", driver |-> thread[t].driver,
               host |-> thread[t].host,
               result |-> Return(conns[Index(thread[t].host,
                                              thread[t].driver)]),
               opened |-> TRUE, attempts |-> <<>>])
    /\ thread' = [thread EXCEPT ![t] = Idle]
    /\ UNCHANGED <<conns, handles>>

(***************************************************************************)
(* C9: when get_virtconn calls for one key are interleaved, no             *)
(* interleaving opens two channels for the key, and once the calls have    *)
(* returned every live connection is the one stored in the cache.          *)
(***************************************************************************)
C9_CacheAccessExclusive ==
    \A key \in Keys :
      /\ Cardinality(ChannelsOf(handles, key)) <= 1
      /\ (\A t \in Threads : thread[t].pc = "idle") =>
            \A i \in LiveOf(handles, key) :
               key \in DOMAIN conns /\ conns[key] = i

(***************************************************************************)
(* One VM and the lifecycle commands                                       *)
(***************************************************************************)
Hypervisors == Hosts
States == {"online", "online_reserved", "maintenance", "retired"}

\* Host.__init__(name_or_obj, ignore_reserved): the reserved-state check
\* that ends the construction of a VM object.
HostInit(state, ignore_reserved) ==
    IF ~ignore_reserved /\ state = "online_reserved"
    THEN Raise("InvalidStateError")
    ELSE Return("None")

\* The error text _check_defined builds: none, "no hypervisor defined", or
\* "not built yet or not running on" the hypervisor.
CheckError(hypervisor, definedOn) ==
    IF hypervisor = None THEN "no hypervisor defined"
    ELSE IF Value(hypervisor) \notin definedOn THEN "not built yet"
    ELSE "none"

\* A _check_defined that ignores fail_hard, the slip C10 must detect.
FailsNever(error, fail_hard) ==
    [result |-> Return("None"), logged |-> error]
\* _check_defined(vm, fail_hard): raises InvalidStateError(error) when
\* there is an error and fail_hard, logs it otherwise.
check_defined(error, fail_hard) ==
    IF error # "none" /\ fail_hard
    THEN [result |-> Raise("InvalidStateError"), logged |-> "none"]
    ELSE [result |-> Return("None"), logged |-> error]

\* No argument of a call, no calls, and no attribute assigned on the
\* inventory record.
NoArg == 0
NoCalls == <<>>
NoWrites == [a \in {} |-> NoArg]

\* No command: calls are the calls made that change the VM, its hypervisor
\* or its inventory record, queries the calls made that only read (in the
\* order made); flag is fail_hard or the caller's ignore_reserved, offline
\* the command's second switch (offline, no_redefine, retire).
NoCmd == [op |-> "none", flag |-> FALSE, force |-> FALSE,
          offline |-> FALSE, count |-> NoArg, size |-> <<>>,
          result |-> Return("None"), logged |-> "none", calls |-> NoCalls,
          queries |-> NoCalls, writes |-> NoWrites]

\* The resources of a freshly listed VM (2 CPUs, 2048 MiB, 10 GiB) and
\* those of the largest VM looked at.
MaxCpu == 4
MaxMemory == 2560
MaxDisk == 15
BaseResources == [num_cpu |-> 2, memory |-> 2048, disk_size_gib |-> 10]
Resources == [num_cpu : {BaseResources.num_cpu, MaxCpu},
              memory : {BaseResources.memory, MaxMemory},
              disk_size_gib : {BaseResources.disk_size_gib, MaxDisk}]

\* The VMs a command can find: unassigned or assigned to the first
\* hypervisor, with any tag, the domain defined nowhere or on one of the
\* first two hypervisors.  The VM runs only where it is defined and
\* assigned; the hypervisor's allocation agrees with the inventory, or (on
\* a defined VM) differs in memory, in disk size or in both; the resources
\* vary on an assigned VM and the hypervisors' tags where one is still to
\* be chosen.
VmInit ==
    /\ vmHypervisor \in {None, Some("hv1.ig.local")}
    /\ vmState \in States
    /\ hvDefined \in {{}, {"hv1.ig.local"}, {"hv2.ig.local"}}
    /\ vmRunning \in BOOLEAN
    /\ inv \in Resources
    /\ invPresent = TRUE
    /\ hvAlloc \in Resources
    /\ hvTags \in [Hypervisors -> {"online", "online_reserved"}]
    /\ LET defined == vmHypervisor # None
                         /\ Value(vmHypervisor) \in hvDefined
       IN  /\ vmRunning => defined
           /\ hvAlloc.num_cpu = inv.num_cpu
           /\ hvAlloc.memory # inv.memory => defined
           /\ hvAlloc.disk_size_gib # inv.disk_size_gib => defined
    /\ IF vmHypervisor = None
       THEN inv = BaseResources
       ELSE hvTags = [h \in Hypervisors |-> "online"]
    /\ cmd = NoCmd

\* The VM the other components' specifications leave untouched.
VmParked ==
    /\ vmHypervisor = None
    /\ vmState = "online"
    /\ hvDefined = {}
    /\ vmRunning = FALSE
    /\ inv = BaseResources
    /\ invPresent = TRUE
    /\ hvAlloc = BaseResources
    /\ hvTags = [h \in Hypervisors |-> "online"]
    /\ cmd = NoCmd

\* What a command leaves alone when it stops before its first step.
vmWorld == <<vmHypervisor, vmState, hvDefined, vmRunning, inv, invPresent,
             hvAlloc, hvTags>>

\* One call on the VM object, its hypervisor or its inventory record.
Call(name, arg) == [name |-> name, arg |-> arg]

\* The calls that only read: vm.hypervisor.vm_defined(vm), vm.is_running()
\* and vm.hypervisor.vm_sync_from_hypervisor(vm).
Query(name) == Call(name, NoArg)
IsQuery(call) ==
    call.name \in {"vm_defined", "is_running", "vm_sync_from_hypervisor"}
IsChange(call) == ~IsQuery(call)

\* "if not vm.hypervisor ... elif not vm.hypervisor.vm_defined(vm)" and
\* "vm.hypervisor and vm.hypervisor.vm_defined(vm) ...": the hypervisor is
\* asked only when there is one.
AskDefined(hypervisor) ==
    IF hypervisor = None THEN NoCalls ELSE <<Query("vm_defined")>>

\* One process runs one command: nothing has been called yet.
Fresh == cmd = NoCmd

\* vm = VM(vm_hostname, ignore_reserved=...)
NewVM ==
    /\ Fresh
    /\ \E ignore_reserved \in BOOLEAN :
         cmd' = [NoCmd EXCEPT !.op = "VM", !.flag = ignore_reserved,
                              !.result = HostInit(vmState, ignore_reserved)]
    /\ UNCHANGED vmWorld

\* _check_defined(vm, fail_hard=...)
CheckDefined ==
    /\ Fresh
    /\ \E fail_hard \in BOOLEAN :
         LET r == check_defined(CheckError(vmHypervisor, hvDefined),
                                fail_hard)
         IN  cmd' = [NoCmd EXCEPT !.op = "_check_defined",
                                  !.flag = fail_hard,
                                  !.queries = AskDefined(vmHypervisor),
                                  !.result = r.result, !.logged = r.logged]
    /\ UNCHANGED vmWorld

(***************************************************************************)
(* C10: _check_defined changes no state; on a VM with no hypervisor        *)
(* assigned, or with one that does not report the VM as defined, it raises *)
(* InvalidStateError when fail_hard is true and logs the error and returns *)
(* normally when fail_hard is false.                                       *)
(***************************************************************************)
C10_CheckDefined ==
    [][cmd'.op = "_check_defined" =>
          /\ vmWorld' = vmWorld
          /\ (vmHypervisor = None \/ Value(vmHypervisor) \notin hvDefined) =>
                IF cmd'.flag
                THEN /\ cmd'.result = Raise("InvalidStateError")
                     /\ cmd'.logged = "none"
                ELSE /\ cmd'.result = Return("None")
                     /\ cmd'.logged # "none"]_vars

\* fail_hard=False on a VM without hypervisor: logged, returned.
C10_Witness ==
    /\ cmd.op = "_check_defined"
    /\ ~cmd.flag
    /\ vmHypervisor = None
    /\ cmd.logged = "no hypervisor defined"
    /\ cmd.result = Return("None")

(***************************************************************************)
(* The lifecycle commands of igvm/commands.py.  A command first decides,   *)
(* from its arguments and from what the VM object and the hypervisor       *)
(* report, either to stop (raise, or return early) or which calls to make  *)
(* in which order; the calls are then made one after the other, and the    *)
(* first one that fails ends the command with its exception.               *)
(***************************************************************************)
\* Size arguments are text: a sequence of characters.
Digits == <<"0", "1", "2", "3", "4", "5", "6", "7", "8", "9">>
IsDigit(c) == \E i \in 1..10 : Digits[i] = c
DigitValue(c) == (CHOOSE i \in 1..10 : Digits[i] = c) - 1

\* The number a run of decimal digits denotes.
RECURSIVE Decimal(_)
Decimal(ds) ==
    IF ds = <<>> THEN 0
    ELSE 10 * Decimal(SubSeq(ds, 1, Len(ds) - 1)) + DigitValue(ds[Len(ds)])

\* parse_size(text, unit): the size in the unit asked for ('m' MiB, 'g'
\* GiB); text is a number with an optional unit suffix, the unit asked for
\* being the default.
parse_size(text, unit) ==
    LET last == text[Len(text)]
        front == SubSeq(text, 1, Len(text) - 1)
    IN  IF IsDigit(last) THEN Decimal(text)
        ELSE IF last = unit THEN Decimal(front)
        ELSE IF last = "g" /\ unit = "m" THEN Decimal(front) * 1024
        ELSE Decimal(front) \div 1024

\* A resolution that takes every size as absolute, the slip C12 must
\* detect.
ResolveAbsolute(current, size, unit) ==
    IF size[1] \in {"+", "-"} THEN parse_size(Tail(size), unit)
    ELSE parse_size(size, unit)
\* The new size mem_set and disk_set compute: relative to the current
\* inventory value with a '+' or '-' prefix, absolute otherwise.
Resolve(current, size, unit) ==
    IF size[1] = "+" THEN current + parse_size(Tail(size), unit)
    ELSE IF size[1] = "-" THEN current - parse_size(Tail(size), unit)
    ELSE parse_size(size, unit)

\* The arguments the commands are called with.
Counts == {2, MaxCpu}
MemSizes == {<<"+", "5", "1", "2">>, <<"-", "5", "1", "2">>,
             <<"2", "g">>, <<"+", "0">>}
DiskSizes == {<<"+", "5">>, <<"-", "5">>, <<"1", "5">>, <<"+", "0">>}

\* The VM as the command finds it.
World == [hypervisor |-> vmHypervisor, state |-> vmState,
          defined |-> hvDefined, running |-> vmRunning, inv |-> inv,
          present |-> invPresent, alloc |-> hvAlloc, pending |-> NoWrites]

\* vm.is_running() and vm.hypervisor.vm_defined(vm), the two queries.
is_running(w) == w.running
vm_defined(w) == w.hypervisor # None /\ Value(w.hypervisor) \in w.defined

\* What a call that succeeds changes.
Effect(w, call) ==
    CASE call.name \in {"shutdown", "stop_vm_force"} ->
            [w EXCEPT !.running = FALSE]
      [] call.name = "start" ->
            [w EXCEPT !.running = TRUE]
      [] call.name = "set_num_cpu" ->
            [w EXCEPT !.inv.num_cpu = call.arg, !.alloc.num_cpu = call.arg]
      [] call.name = "set_memory" ->
            [w EXCEPT !.inv.memory = call.arg, !.alloc.memory = call.arg]
      [] call.name = "vm_set_disk_size_gib" ->
            [w EXCEPT !.alloc.disk_size_gib = call.arg]
      [] call.name = "commit_disk_size_gib" ->
            [w EXCEPT !.inv.disk_size_gib = call.arg]
      [] call.name = "delete_vm" ->
            [w EXCEPT !.defined = @ \ {Value(w.hypervisor)},
                      !.running = FALSE]
      [] call.name = "commit_state_retired" ->
            [w EXCEPT !.state = "retired"]
      [] call.name = "commit_delete" ->
            [w EXCEPT !.present = FALSE]
      [] call.name = "commit_sync" ->
            [w EXCEPT !.inv = [a \in DOMAIN w.inv |->
                                 IF a \in DOMAIN w.pending
                                 THEN w.pending[a] ELSE w.inv[a]]]
      [] call.name = "build" ->
            [w EXCEPT !.defined = @ \cup {Value(w.hypervisor)},
                      !.running = TRUE]
      [] OTHER -> w

\* A call on vm.hypervisor while vm.hypervisor is None.
OnNone(w, call) ==
    /\ w.hypervisor = None
    /\ call.name \in {"stop_vm_force", "delete_vm", "redefine_vm",
                      "vm_set_disk_size_gib"}

\* What a failing call raises: AttributeError from a call on None, the
\* inventory's own error from a commit, the remote command error from
\* everything else.
Failure(w, call) ==
    IF OnNone(w, call) THEN "AttributeError"
    ELSE IF call.name \in {"commit_disk_size_gib", "commit_state_retired",
                           "commit_delete", "commit_sync"}
    THEN "DatasetError"
    ELSE AbortException

\* A call that cannot succeed: only growing a disk is implemented.
Refused(w, call) ==
    call.name = "vm_set_disk_size_gib" /\ call.arg < w.alloc.disk_size_gib

\* The calls of steps made in order from position k, the one at failAt
\* (if any) failing and ending the command.
RECURSIVE Perform(_, _, _, _)
Perform(w, steps, failAt, k) ==
    IF k > Len(steps)
    THEN [world |-> w, calls |-> NoCalls, raised |-> NoFailure]
    ELSE IF k = failAt \/ OnNone(w, steps[k]) \/ Refused(w, steps[k])
    THEN [world |-> w, calls |-> <<steps[k]>>,
          raised |-> Failure(w, steps[k])]
    ELSE LET rest == Perform(Effect(w, steps[k]), steps, failAt, k + 1)
         IN  [rest EXCEPT !.calls = <<steps[k]>> \o @]

\* A command that stops before any call, and one that makes calls and
\* then returns (logging "after" once they are all made).
Stop(w, result, logged) ==
    [world |-> w, result |-> result, logged |-> logged, steps |-> NoCalls,
     after |-> "none", asked |-> NoCalls]
Steps(w, steps, logged, after) ==
    [world |-> w, result |-> Return("None"), logged |-> logged,
     steps |-> steps, after |-> after, asked |-> NoCalls]

\* What a command decides once its first checks (pre) have passed, having
\* asked own before it stops or makes its first step.
After(pre, own, plan) == [plan EXCEPT !.asked = pre.asked \o own]

\* The run of a command from what it decided; the calls that only read
\* always answer.
Command(op, args, plan) ==
    \E failAt \in {0} \cup {k \in 1..Len(plan.steps) :
                                 IsChange(plan.steps[k])} :
    LET done == Perform(plan.world, plan.steps, failAt, 1)
    IN  /\ Fresh
        /\ vmHypervisor' = done.world.hypervisor
        /\ vmState' = done.world.state
        /\ hvDefined' = done.world.defined
        /\ vmRunning' = done.world.running
        /\ inv' = done.world.inv
        /\ invPresent' = done.world.present
        /\ hvAlloc' = done.world.alloc
        /\ cmd' = [args EXCEPT !.op = op,
                               !.result = IF done.raised # NoFailure
                                          THEN Raise(done.raised)
                                          ELSE plan.result,
                               !.logged = IF done.raised = NoFailure
                                             /\ plan.after # "none"
                                          THEN plan.after
                                          ELSE plan.logged,
                               !.calls = SelectSeq(done.calls, IsChange),
                               !.queries =
                                   plan.asked
                                   \o SelectSeq(done.calls, IsQuery),
                               !.writes = done.world.pending]
        /\ UNCHANGED hvTags

\* The two checks every command starts with: the construction of the VM
\* object and _check_defined.
Precheck(w, ignore_reserved, fail_hard) ==
    LET made == HostInit(w.state, ignore_reserved)
        chk == check_defined(CheckError(w.hypervisor, w.defined), fail_hard)
    IN  IF made.kind = "raise" THEN Stop(w, made, "none")
        ELSE [Stop(w, chk.result, chk.logged)
                 EXCEPT !.asked = AskDefined(w.hypervisor)]

\* A resize that skips the comparison with the current value, the slip
\* C11 must detect.
SameNever(new, current) == FALSE
\* "if count == vm.dataset_obj['num_cpu']" and its two siblings.
Same(new, current) == new = current

\* vcpu_set(vm_hostname, count, offline, ignore_reserved)
vcpu_set(w, count, offline, ignore_reserved) ==
    LET pre == Precheck(w, ignore_reserved, TRUE)
        off == offline /\ is_running(w)
        logged == IF offline /\ ~is_running(w)
                  THEN "already powered off" ELSE "none"
        own == IF offline THEN <<Query("is_running")>> ELSE NoCalls
    IN  IF pre.result.kind = "raise" THEN pre
        ELSE After(pre, own,
             IF Same(count, w.inv.num_cpu)
             THEN Stop(w, Raise("Warning"), logged)
             ELSE Steps(w,
                        (IF off THEN <<Call("shutdown", NoArg)>> ELSE <<>>)
                        \o <<Call("set_num_cpu", count)>>
                        \o (IF off THEN <<Call("start", NoArg)>> ELSE <<>>),
                        logged, "none"))

\* mem_set(vm_hostname, size, offline, ignore_reserved)
mem_set(w, size, offline, ignore_reserved) ==
    LET pre == Precheck(w, ignore_reserved, TRUE)
        new_memory == Resolve(w.inv.memory, size, "m")
        off == offline /\ is_running(w)
        logged == IF offline /\ ~is_running(w)
                  THEN "already powered off" ELSE "none"
        own == IF offline /\ ~Same(new_memory, w.inv.memory)
               THEN <<Query("is_running")>> ELSE NoCalls
    IN  IF pre.result.kind = "raise" THEN pre
        ELSE After(pre, own,
             IF Same(new_memory, w.inv.memory)
             THEN Stop(w, Raise("Warning"), "none")
             ELSE Steps(w,
                        (IF off THEN <<Call("shutdown", NoArg)>> ELSE <<>>)
                        \o <<Call("set_memory", new_memory)>>
                        \o (IF off THEN <<Call("start", NoArg)>> ELSE <<>>),
                        logged, "none"))

\* A disk_set that commits the new size before the resize, the slip C21
\* must detect.
CommitThenResize(resize, commit) == <<commit, resize>>
\* The order of disk_set's two steps: the hypervisor resize, then the
\* assignment and commit of the new size.
ResizeThenCommit(resize, commit) == <<resize, commit>>

\* disk_set(vm_hostname, size, ignore_reserved)
disk_set(w, size, ignore_reserved) ==
    LET pre == Precheck(w, ignore_reserved, TRUE)
        current_size_gib == w.inv.disk_size_gib
        new_size_gib == Resolve(current_size_gib, size, "g")
        own == NoCalls
    IN  IF pre.result.kind = "raise" THEN pre
        ELSE After(pre, own,
             IF Same(new_size_gib, w.inv.disk_size_gib)
             THEN Stop(w, Raise("Warning"), "none")
             ELSE Steps(w, ResizeThenCommit(
                              Call("vm_set_disk_size_gib", new_size_gib),
                              Call("commit_disk_size_gib", new_size_gib)),
                        "none", "none"))

\* An admission that always lets a reserved hypervisor in, the slip C15
\* must detect.
AdmitsReserved(ignore_reserved) == {"online", "online_reserved"}
\* The hypervisor states vm_build admits.
Admissible(ignore_reserved) ==
    IF ignore_reserved THEN {"online", "online_reserved"} ELSE {"online"}

\* vm.set_best_hypervisor(states): the hypervisors in an admitted state
\* with room for the VM.
Candidates(tags, states, roomy) == {h \in roomy : tags[h] \in states}

\* vm_build(vm_hostname, ignore_reserved=...), pick being the choice
\* set_best_hypervisor makes among its candidates.
vm_build(w, tags, ignore_reserved, roomy, pick) ==
    LET made == HostInit(w.state, FALSE)
        candidates == Candidates(tags, Admissible(ignore_reserved), roomy)
    IN  IF made.kind = "raise" THEN Stop(w, made, "none")
        ELSE IF w.hypervisor # None
        THEN Steps(w, <<Call("build", NoArg)>>, "none", "none")
        ELSE IF candidates = {}
        THEN Stop(w, Raise("NoHypervisorAvailable"), "none")
        ELSE Steps([w EXCEPT !.hypervisor = Some(pick)],
                   <<Call("build", NoArg)>>, "none", "none")

\* A command that takes a running VM for stopped, the slip C23 must
\* detect.
StillRunningNever(running, force) == FALSE
\* vm_rebuild and vm_delete give up on a running VM unless forced.
StillRunning(running, force) == running /\ ~force

\* vm_rebuild(vm_hostname, force)
vm_rebuild(w, force) ==
    LET pre == Precheck(w, TRUE, TRUE)
        own == <<Query("is_running")>>
    IN  IF pre.result.kind = "raise" THEN pre
        ELSE After(pre, own,
             IF StillRunning(is_running(w), force)
             THEN Stop(w, Raise("InvalidStateError"), "none")
             ELSE Steps(w,
                        (IF is_running(w)
                         THEN <<Call("stop_vm_force", NoArg)>> ELSE <<>>)
                        \o <<Call("delete_vm", NoArg), Call("build", NoArg)>>,
                        "none", "none"))

\* vm_start(vm_hostname)
vm_start(w) ==
    LET pre == Precheck(w, FALSE, TRUE)
        own == <<Query("is_running")>>
    IN  IF pre.result.kind = "raise" THEN pre
        ELSE After(pre, own,
             IF is_running(w)
             THEN Stop(w, Return("None"), "already running")
             ELSE Steps(w, <<Call("start", NoArg)>>, "none", "none"))

\* A stop that does not look whether the VM runs, the slip C13 must
\* detect.
StopCallsBlind(running, force) ==
    IF force THEN <<Call("stop_vm_force", NoArg)>>
    ELSE <<Call("shutdown", NoArg)>>
\* The calls vm_stop decides on: none on a stopped VM, else the forced or
\* the graceful stop.
StopCalls(running, force) ==
    IF ~running THEN NoCalls
    ELSE IF force THEN <<Call("stop_vm_force", NoArg)>>
    ELSE <<Call("shutdown", NoArg)>>

\* vm_stop(vm_hostname, force)
vm_stop(w, force) ==
    LET pre == Precheck(w, FALSE, TRUE)
        calls == StopCalls(is_running(w), force)
        own == <<Query("is_running")>>
    IN  IF pre.result.kind = "raise" THEN pre
        ELSE After(pre, own,
             IF calls = NoCalls
             THEN Stop(w, Return("None"), "already stopped")
             ELSE Steps(w, calls, "none", "is stopped"))

\* A restart that redefines the domain whatever no_redefine says, the
\* slip C22 must detect.
RestartAlwaysRedefines(force, no_redefine) ==
    <<Call(IF force THEN "stop_vm_force" ELSE "shutdown", NoArg),
      Call("redefine_vm", NoArg), Call("start", NoArg)>>
\* The calls of vm_restart on a running VM: the forced or the graceful
\* stop, the redefinition unless no_redefine, the start.
RestartCalls(force, no_redefine) ==
    (IF force THEN <<Call("stop_vm_force", NoArg)>>
              ELSE <<Call("shutdown", NoArg)>>)
    \o (IF ~no_redefine THEN <<Call("redefine_vm", NoArg)>> ELSE <<>>)
    \o <<Call("start", NoArg)>>

\* vm_restart(vm_hostname, force, no_redefine)
vm_restart(w, force, no_redefine) ==
    LET pre == Precheck(w, TRUE, TRUE)
        own == <<Query("is_running")>>
    IN  IF pre.result.kind = "raise" THEN pre
        ELSE After(pre, own,
             IF ~is_running(w)
             THEN Stop(w, Raise("InvalidStateError"), "none")
             ELSE Steps(w, RestartCalls(force, no_redefine), "none",
                        "is restarted"))

\* A deletion that removes the inventory record first, the slip C14 must
\* detect.
RecordFirst(stop, remove, record) == record \o stop \o remove
\* The order of vm_delete's calls: force-stop, delete the domain, then the
\* inventory record.
StopRemoveRecord(stop, remove, record) == stop \o remove \o record

\* vm_delete(vm_hostname, force, retire)
vm_delete(w, force, retire) ==
    LET pre == Precheck(w, TRUE, ~force)
        running == w.hypervisor # None /\ vm_defined(w) /\ is_running(w)
        own == AskDefined(w.hypervisor)
               \o (IF vm_defined(w) THEN <<Query("is_running")>>
                                     ELSE NoCalls)
    IN  IF pre.result.kind = "raise" THEN pre
        ELSE After(pre, own,
             IF StillRunning(running, force)
             THEN Stop(w, Raise("InvalidStateError"), pre.logged)
             ELSE Steps(w,
                        StopRemoveRecord(
                           IF running THEN <<Call("stop_vm_force", NoArg)>>
                                      ELSE <<>>,
                           AskDefined(w.hypervisor)
                           \o (IF w.hypervisor # None /\ vm_defined(w)
                               THEN <<Call("delete_vm", NoArg)>> ELSE <<>>),
                           IF retire
                           THEN <<Call("commit_state_retired", NoArg)>>
                           ELSE <<Call("commit_delete", NoArg)>>),
                        pre.logged,
                        IF retire THEN "destroyed and set to retired"
                                  ELSE "destroyed and deleted"))

\* The attributes vm_sync assigns: those whose value on the hypervisor is
\* not the record's (and, for comparison, all of them).
ChangedAll(current, attributes) == DOMAIN attributes
Changed(current, attributes) ==
    {attrib \in DOMAIN attributes : current[attrib] # attributes[attrib]}

\* vm_sync(vm_hostname): the assignments to dataset_obj are kept in
\* pending until dataset_obj.commit() stores them.
vm_sync(w) ==
    LET pre == Precheck(w, TRUE, TRUE)
        attributes == w.alloc
        changed == Changed(w.inv, attributes)
        written == [w EXCEPT !.pending =
                       [attrib \in changed |-> attributes[attrib]]]
        own == <<Query("vm_sync_from_hypervisor")>>
    IN  IF pre.result.kind = "raise" THEN pre
        ELSE After(pre, own,
             IF changed # {}
             THEN Steps(written, <<Call("commit_sync", NoArg)>>, "none",
                        "is synchronized")
             ELSE Stop(written, Return("None"), "already synchronized"))

\* The one case vm_rename goes through with: --offline given and the VM
\* running (and, for comparison, --offline given on a stopped VM).
RenameSupportedStopped(offline, running) == offline /\ ~running
RenameSupported(offline, running) == offline /\ running

\* vm_rename(vm_hostname, new_hostname, offline)
vm_rename(w, offline) ==
    LET pre == Precheck(w, TRUE, TRUE)
        own == IF offline THEN <<Query("is_running")>> ELSE NoCalls
    IN  IF pre.result.kind = "raise" THEN pre
        ELSE After(pre, own,
             IF ~RenameSupported(offline, is_running(w))
             THEN Stop(w, Raise("NotImplementedError"), "none")
             ELSE Steps(w, <<Call("rename", NoArg)>>, "none", "none"))

VcpuSet ==
    \E count \in Counts, offline, ignore_reserved \in BOOLEAN :
       Command("vcpu_set",
               [NoCmd EXCEPT !.flag = ignore_reserved, !.count = count,
                             !.offline = offline],
               vcpu_set(World, count, offline, ignore_reserved))

MemSet ==
    \E size \in MemSizes, offline, ignore_reserved \in BOOLEAN :
       Command("mem_set",
               [NoCmd EXCEPT !.flag = ignore_reserved, !.size = size,
                             !.offline = offline],
               mem_set(World, size, offline, ignore_reserved))

DiskSet ==
    \E size \in DiskSizes, ignore_reserved \in BOOLEAN :
       Command("disk_set",
               [NoCmd EXCEPT !.flag = ignore_reserved, !.size = size],
               disk_set(World, size, ignore_reserved))

VmBuild ==
    \E ignore_reserved \in BOOLEAN, roomy \in SUBSET Hypervisors,
       pick \in Hypervisors :
       /\ LET candidates == Candidates(hvTags, Admissible(ignore_reserved),
                                       roomy)
          IN  pick \in candidates \/ (candidates = {} /\ pick = "hv1.ig.local")
       /\ Command("vm_build", [NoCmd EXCEPT !.flag = ignore_reserved],
                  vm_build(World, hvTags, ignore_reserved, roomy, pick))

VmRebuild ==
    \E force \in BOOLEAN :
       Command("vm_rebuild", [NoCmd EXCEPT !.force = force],
               vm_rebuild(World, force))

VmStart == Command("vm_start", NoCmd, vm_start(World))

VmStop ==
    \E force \in BOOLEAN :
       Command("vm_stop", [NoCmd EXCEPT !.force = force],
               vm_stop(World, force))

VmRestart ==
    \E force, no_redefine \in BOOLEAN :
       Command("vm_restart",
               [NoCmd EXCEPT !.force = force, !.offline = no_redefine],
               vm_restart(World, force, no_redefine))

VmDelete ==
    \E force, retire \in BOOLEAN :
       Command("vm_delete",
               [NoCmd EXCEPT !.force = force, !.offline = retire],
               vm_delete(World, force, retire))

VmSync == Command("vm_sync", NoCmd, vm_sync(World))

VmRename ==
    \E offline \in BOOLEAN :
       Command("vm_rename", [NoCmd EXCEPT !.offline = offline],
               vm_rename(World, offline))

(***************************************************************************)
(* C11: vcpu_set, mem_set and disk_set called on a defined VM that the     *)
(* reserved-state check lets through (not tagged online_reserved, or       *)
(* ignore_reserved given), with a requested value (absolute, or relative   *)
(* and resolved) equal to the current inventory value, raise Warning and   *)
(* change nothing: no call is made (no shutdown, start, resize or commit), *)
(* also when offline was requested.  On a VM tagged online_reserved and    *)
(* without ignore_reserved they raise InvalidStateError instead, and       *)
(* change nothing either.                                                  *)
(***************************************************************************)
C11_EqualValueIsNoOp ==
    [][LET c == cmd'
           requested == CASE c.op = "vcpu_set" -> c.count
                          [] c.op = "mem_set" ->
                                Resolve(inv.memory, c.size, "m")
                          [] c.op = "disk_set" ->
                                Resolve(inv.disk_size_gib, c.size, "g")
           current == CASE c.op = "vcpu_set" -> inv.num_cpu
                        [] c.op = "mem_set" -> inv.memory
                        [] c.op = "disk_set" -> inv.disk_size_gib
       IN  (/\ c.op \in {"vcpu_set", "mem_set", "disk_set"}
            /\ vm_defined(World)
            /\ requested = current)
           => /\ c.result = IF vmState # "online_reserved" \/ c.flag
                            THEN Raise("Warning")
                            ELSE Raise("InvalidStateError")
              /\ c.calls = NoCalls
              /\ vmWorld' = vmWorld]_vars

\* The claim as first stated, for every defined VM: a VM tagged
\* online_reserved is turned away with InvalidStateError instead.
C11_EqualValueAlwaysWarns ==
    [][LET c == cmd'
           requested == CASE c.op = "vcpu_set" -> c.count
                          [] c.op = "mem_set" ->
                                Resolve(inv.memory, c.size, "m")
                          [] c.op = "disk_set" ->
                                Resolve(inv.disk_size_gib, c.size, "g")
           current == CASE c.op = "vcpu_set" -> inv.num_cpu
                        [] c.op = "mem_set" -> inv.memory
                        [] c.op = "disk_set" -> inv.disk_size_gib
       IN  (/\ c.op \in {"vcpu_set", "mem_set", "disk_set"}
            /\ vm_defined(World)
            /\ requested = current)
           => /\ c.result = Raise("Warning")
              /\ c.calls = NoCalls
              /\ vmWorld' = vmWorld]_vars

\* mem_set '+0' with offline requested on a running VM: Warning, and the
\* VM still runs.
C11_Witness ==
    /\ cmd.op = "mem_set"
    /\ cmd.size = <<"+", "0">>
    /\ cmd.offline
    /\ cmd.result = Raise("Warning")
    /\ cmd.calls = NoCalls
    /\ vmRunning

(***************************************************************************)
(* C12: mem_set with a relative size '+d' on a defined VM that the         *)
(* reserved-state check lets through, the current memory being m: every    *)
(* set_memory it issues asks for m + d, and unless a remote call fails the *)
(* inventory memory is m + d afterwards ('+512' on 2048 MiB gives 2560);   *)
(* when offline is not requested it issues neither shutdown nor start and  *)
(* the VM's running state is what it was.  On a VM tagged online_reserved  *)
(* and without ignore_reserved it raises InvalidStateError and sets        *)
(* nothing.                                                                *)
(***************************************************************************)
C12_RelativeGrowth ==
    [][(/\ cmd'.op = "mem_set"
        /\ cmd'.size[1] = "+"
        /\ vm_defined(World))
       => LET d == parse_size(Tail(cmd'.size), "m")
          IN  IF vmState = "online_reserved" /\ ~cmd'.flag
              THEN /\ cmd'.result = Raise("InvalidStateError")
                   /\ cmd'.calls = NoCalls
                   /\ vmWorld' = vmWorld
              ELSE /\ \A i \in 1..Len(cmd'.calls) :
                        cmd'.calls[i].name = "set_memory" =>
                           cmd'.calls[i].arg = inv.memory + d
                   /\ cmd'.result # Raise(AbortException) =>
                         inv'.memory = inv.memory + d
                   /\ ~cmd'.offline =>
                         /\ \A i \in 1..Len(cmd'.calls) :
                              cmd'.calls[i].name \notin {"shutdown", "start"}
                         /\ vmRunning' = vmRunning]_vars

\* The claim as first stated, for every defined VM: on a VM tagged
\* online_reserved mem_set without ignore_reserved sets nothing.
C12_RelativeGrowthAlways ==
    [][(/\ cmd'.op = "mem_set"
        /\ cmd'.size[1] = "+"
        /\ vm_defined(World))
       => LET d == parse_size(Tail(cmd'.size), "m")
          IN  /\ \A i \in 1..Len(cmd'.calls) :
                   cmd'.calls[i].name = "set_memory" =>
                      cmd'.calls[i].arg = inv.memory + d
              /\ cmd'.result # Raise(AbortException) =>
                    inv'.memory = inv.memory + d
              /\ ~cmd'.offline =>
                    /\ \A i \in 1..Len(cmd'.calls) :
                         cmd'.calls[i].name \notin {"shutdown", "start"}
                    /\ vmRunning' = vmRunning]_vars

\* '+512' without offline on a running VM: the one call is
\* set_memory(2560), the inventory holds 2560, the VM still runs.
C12_Witness ==
    /\ cmd.op = "mem_set"
    /\ cmd.size = <<"+", "5", "1", "2">>
    /\ ~cmd.offline
    /\ cmd.result = Return("None")
    /\ cmd.calls = <<Call("set_memory", 2560)>>
    /\ inv.memory = 2560
    /\ vmRunning

(***************************************************************************)
(* C13: vm_stop with force=false on a defined VM that is already stopped   *)
(* and is not tagged online_reserved logs 'already stopped', makes exactly *)
(* two calls, the queries vm.hypervisor.vm_defined(vm) and                 *)
(* vm.is_running() that find the VM defined and stopped, makes no call     *)
(* that stops or otherwise changes the VM, changes nothing and returns     *)
(* normally.  On a VM tagged online_reserved it raises InvalidStateError   *)
(* instead (vm_stop has no override), before any call, query or other, and *)
(* changes nothing either.                                                 *)
(***************************************************************************)
C13_StopStoppedIsNoOp ==
    [][(/\ cmd'.op = "vm_stop"
        /\ ~cmd'.force
        /\ vm_defined(World)
        /\ ~vmRunning)
       => /\ IF vmState # "online_reserved"
             THEN /\ cmd'.logged = "already stopped"
                  /\ cmd'.result = Return("None")
                  /\ cmd'.queries = <<Query("vm_defined"),
                                      Query("is_running")>>
             ELSE /\ cmd'.logged = "none"
                  /\ cmd'.result = Raise("InvalidStateError")
                  /\ cmd'.queries = NoCalls
          /\ cmd'.calls = NoCalls
          /\ vmWorld' = vmWorld]_vars

\* The claim as first stated, for every defined, stopped VM: logged,
\* returned, and no call on the hypervisor at all.  vm_stop builds the VM
\* object without ignore_reserved, so a VM tagged online_reserved is turned
\* away with InvalidStateError; and on every other such VM _check_defined
\* asks the hypervisor whether the VM is defined (vm_defined is one of the
\* hypervisor's calls) before vm_stop asks whether it runs.
C13_StopStoppedAlwaysReturns ==
    [][(/\ cmd'.op = "vm_stop"
        /\ ~cmd'.force
        /\ vm_defined(World)
        /\ ~vmRunning)
       => /\ cmd'.logged = "already stopped"
          /\ cmd'.calls = NoCalls
          /\ cmd'.queries = NoCalls
          /\ cmd'.result = Return("None")
          /\ vmWorld' = vmWorld]_vars

\* A defined, stopped VM asked to stop: asked twice, logged, returned.
C13_Witness ==
    /\ cmd.op = "vm_stop"
    /\ ~cmd.force
    /\ vmHypervisor # None
    /\ Value(vmHypervisor) \in hvDefined
    /\ ~vmRunning
    /\ cmd.logged = "already stopped"
    /\ cmd.result = Return("None")
    /\ cmd.queries = <<Query("vm_defined"), Query("is_running")>>

(***************************************************************************)
(* C14: vm_delete with force=true and retire=true on a running, defined VM *)
(* makes its calls in the order force-stop, deletion of the domain, commit *)
(* of the tag 'retired' (a failing call ends the sequence there); when it  *)
(* returns, all three were made, the domain is gone and the tag is         *)
(* 'retired'; the inventory record is never deleted.                       *)
(***************************************************************************)
C14_ForceRetireOrder ==
    [][(/\ cmd'.op = "vm_delete"
        /\ cmd'.force
        /\ cmd'.offline
        /\ vm_defined(World)
        /\ vmRunning)
       => LET order == <<Call("stop_vm_force", NoArg),
                         Call("delete_vm", NoArg),
                         Call("commit_state_retired", NoArg)>>
          IN  /\ Len(cmd'.calls) \in 1..3
              /\ cmd'.calls = SubSeq(order, 1, Len(cmd'.calls))
              /\ invPresent'
              /\ cmd'.result = Return("None") =>
                    /\ cmd'.calls = order
                    /\ Value(vmHypervisor) \notin hvDefined'
                    /\ ~vmRunning'
                    /\ vmState' = "retired"]_vars

\* A running VM deleted with force and retire: stopped, removed, retired,
\* its record kept.
C14_Witness ==
    /\ cmd.op = "vm_delete"
    /\ cmd.force
    /\ cmd.offline
    /\ cmd.result = Return("None")
    /\ Len(cmd.calls) = 3
    /\ cmd.calls[1].name = "stop_vm_force"
    /\ vmState = "retired"
    /\ invPresent
    /\ hvDefined = {}

(***************************************************************************)
(* C15: vm_build on a VM with no assigned hypervisor, the VM itself not    *)
(* tagged online_reserved, assigns only a hypervisor whose tag is          *)
(* admissible ({online}; {online, online_reserved} with ignore_reserved);  *)
(* when every hypervisor is tagged online_reserved and ignore_reserved is  *)
(* false it fails with NoHypervisorAvailable, no call made and nothing     *)
(* changed.  On a VM with an assigned hypervisor the assignment stays.  A  *)
(* VM that is itself tagged online_reserved is turned away with            *)
(* InvalidStateError, with or without ignore_reserved.                     *)
(***************************************************************************)
C15_BuildSelectsAdmissible ==
    [][cmd'.op = "vm_build" =>
          /\ (vmHypervisor = None /\ vmState # "online_reserved") =>
                /\ vmHypervisor' # None =>
                      hvTags[Value(vmHypervisor')] \in
                         (IF cmd'.flag THEN {"online", "online_reserved"}
                                       ELSE {"online"})
                /\ (~cmd'.flag /\ \A h \in Hypervisors :
                                     hvTags[h] = "online_reserved") =>
                      /\ cmd'.result = Raise("NoHypervisorAvailable")
                      /\ cmd'.calls = NoCalls
                      /\ vmWorld' = vmWorld
          /\ vmState = "online_reserved" =>
                /\ cmd'.result = Raise("InvalidStateError")
                /\ cmd'.calls = NoCalls
                /\ vmWorld' = vmWorld
          /\ vmHypervisor # None => vmHypervisor' = vmHypervisor]_vars

\* The claim as first stated, for every VM without hypervisor: vm_build
\* builds the VM object without ignore_reserved, so a VM that is itself
\* tagged online_reserved is turned away with InvalidStateError, whatever
\* the hypervisors' tags.
C15_BuildAlwaysSelects ==
    [][cmd'.op = "vm_build" =>
          /\ vmHypervisor = None =>
                /\ vmHypervisor' # None =>
                      hvTags[Value(vmHypervisor')] \in
                         (IF cmd'.flag THEN {"online", "online_reserved"}
                                       ELSE {"online"})
                /\ (~cmd'.flag /\ \A h \in Hypervisors :
                                     hvTags[h] = "online_reserved") =>
                      /\ cmd'.result = Raise("NoHypervisorAvailable")
                      /\ cmd'.calls = NoCalls
                      /\ vmWorld' = vmWorld
          /\ vmHypervisor # None => vmHypervisor' = vmHypervisor]_vars

\* Every hypervisor reserved, ignore_reserved not given: no hypervisor
\* available, nothing called.
C15_Witness ==
    /\ cmd.op = "vm_build"
    /\ ~cmd.flag
    /\ \A h \in Hypervisors : hvTags[h] = "online_reserved"
    /\ vmState = "online"
    /\ vmHypervisor = None
    /\ cmd.result = Raise("NoHypervisorAvailable")
    /\ cmd.calls = NoCalls

(***************************************************************************)
(* C16: every state-mutating multi-step operation runs inside a            *)
(* Transaction and registers a compensator after each step that changes    *)
(* durable state.  Checked on the operations whose steps igvm/commands.py  *)
(* itself makes (disk_set, vm_rebuild, vm_delete): once one of them has    *)
(* made a call, a transaction has been entered.  The commands never create *)
(* a Transaction.                                                          *)
(***************************************************************************)
C16_StepsRunInTransaction ==
    (cmd.op \in {"disk_set", "vm_rebuild", "vm_delete"}
        /\ cmd.calls # NoCalls)
    => /\ txpc # "new"
       /\ (Len(cmd.calls) > 1 => registered # <<>>)

(***************************************************************************)
(* C17: no lifecycle command changes a VM tagged online_reserved unless    *)
(* its caller overrides the protection: called without override, every     *)
(* command turns such a VM away with InvalidStateError, no call made and   *)
(* nothing changed.  vm_rebuild, vm_restart, vm_delete, vm_sync and        *)
(* vm_rename build the VM object with ignore_reserved=True themselves.     *)
(***************************************************************************)
C17_ReservedNeedsOverride ==
    [][(/\ cmd'.op \in {"vcpu_set", "mem_set", "disk_set", "vm_build",
                        "vm_rebuild", "vm_start", "vm_stop", "vm_restart",
                        "vm_delete", "vm_sync", "vm_rename"}
        /\ vmState = "online_reserved"
        /\ ~cmd'.flag)
       => /\ cmd'.result = Raise("InvalidStateError")
          /\ cmd'.calls = NoCalls
          /\ vmWorld' = vmWorld]_vars

(***************************************************************************)
(* C20: after disk_set on a VM whose inventory disk size and hypervisor    *)
(* disk size agree, the two agree again in every outcome, the one where    *)
(* the resize succeeds and the commit fails included.  disk_set has no     *)
(* compensator for the resize.                                             *)
(***************************************************************************)
C20_DiskSizesStayInAgreement ==
    [][(/\ cmd'.op = "disk_set"
        /\ inv.disk_size_gib = hvAlloc.disk_size_gib)
       => inv'.disk_size_gib = hvAlloc'.disk_size_gib]_vars

(***************************************************************************)
(* C21: disk_set changes and commits the inventory disk size only after    *)
(* the hypervisor resize has succeeded: a commit is its second call, made  *)
(* after a resize to the same size that took effect; when the precondition *)
(* check or the resize fails no commit is issued and the inventory record  *)
(* is what it was.                                                         *)
(***************************************************************************)
C21_CommitOnlyAfterResize ==
    [][cmd'.op = "disk_set" =>
          LET calls == cmd'.calls
              commits == {i \in 1..Len(calls) :
                             calls[i].name = "commit_disk_size_gib"}
          IN  /\ \A i \in commits :
                   /\ i = 2
                   /\ calls[1] = Call("vm_set_disk_size_gib", calls[i].arg)
                   /\ hvAlloc'.disk_size_gib = calls[i].arg
              /\ commits = {} => inv' = inv
              /\ inv'.disk_size_gib # inv.disk_size_gib =>
                    /\ commits # {}
                    /\ cmd'.result = Return("None")]_vars

\* The resize failed: it was the only call, and inventory and hypervisor
\* hold the old size.
C21_Witness ==
    /\ cmd.op = "disk_set"
    /\ cmd.result = Raise(AbortException)
    /\ Len(cmd.calls) = 1
    /\ cmd.calls[1].name = "vm_set_disk_size_gib"
    /\ inv.disk_size_gib # cmd.calls[1].arg
    /\ hvAlloc.disk_size_gib = inv.disk_size_gib

(***************************************************************************)
(* C22: vm_restart on a VM that is not running raises InvalidStateError,   *)
(* makes no call and changes nothing.  On a running VM its calls are, in   *)
(* this order, the stop (stop_vm_force if force, else shutdown), the       *)
(* redefinition (exactly when no_redefine is false) and the start; a       *)
(* failing call ends the sequence, so no start is issued after a failed    *)
(* stop or redefinition.                                                   *)
(***************************************************************************)
C22_RestartOrder ==
    [][cmd'.op = "vm_restart" =>
          IF ~vmRunning
          THEN /\ cmd'.result = Raise("InvalidStateError")
               /\ cmd'.calls = NoCalls
               /\ vmWorld' = vmWorld
          ELSE LET stop == IF cmd'.force THEN "stop_vm_force"
                                         ELSE "shutdown"
                   order == IF cmd'.offline
                            THEN <<Call(stop, NoArg), Call("start", NoArg)>>
                            ELSE <<Call(stop, NoArg),
                                   Call("redefine_vm", NoArg),
                                   Call("start", NoArg)>>
                   n == Len(cmd'.calls)
               IN  /\ n \in 1..Len(order)
                   /\ cmd'.calls = SubSeq(order, 1, n)
                   /\ IF cmd'.result = Return("None")
                      THEN n = Len(order) /\ vmRunning'
                      ELSE /\ cmd'.result = Raise(AbortException)
                           /\ n < Len(order) =>
                                 /\ ~vmRunning' \/ n = 1
                                 /\ \A i \in 1..n :
                                      cmd'.calls[i].name # "start"]_vars

\* The redefinition failed after a graceful shutdown: no start followed
\* and the VM is left stopped.
C22_Witness ==
    /\ cmd.op = "vm_restart"
    /\ ~cmd.force
    /\ ~cmd.offline
    /\ cmd.result = Raise(AbortException)
    /\ cmd.calls = <<Call("shutdown", NoArg), Call("redefine_vm", NoArg)>>
    /\ ~vmRunning

(***************************************************************************)
(* C23: vm_delete and vm_rebuild on a defined VM that is running, called   *)
(* with force=false, raise InvalidStateError before any mutation: no call  *)
(* is made (no stop, no deletion of the domain, no build, no commit) and   *)
(* neither the hypervisor nor the inventory record changes.                *)
(***************************************************************************)
C23_RunningNeedsForce ==
    [][(/\ cmd'.op \in {"vm_delete", "vm_rebuild"}
        /\ ~cmd'.force
        /\ vm_defined(World)
        /\ vmRunning)
       => /\ cmd'.result = Raise("InvalidStateError")
          /\ cmd'.calls = NoCalls
          /\ vmWorld' = vmWorld]_vars

\* vm_delete with retire but without force on a running VM of any tag:
\* refused, the VM still defined and running, its record in place.
C23_Witness ==
    /\ cmd.op = "vm_delete"
    /\ ~cmd.force
    /\ cmd.offline
    /\ vmRunning
    /\ vmHypervisor # None
    /\ Value(vmHypervisor) \in hvDefined
    /\ vmState = "online_reserved"
    /\ invPresent
    /\ cmd.result = Raise("InvalidStateError")
    /\ cmd.calls = NoCalls

(***************************************************************************)
(* C24: vcpu_set with a count different from the current one, on a defined *)
(* VM that the reserved-state check lets through: with offline requested   *)
(* on a running VM the calls are shutdown, set_num_cpu, start, in this     *)
(* order; without offline, or on a VM already powered off, neither         *)
(* shutdown nor start is issued; the start is issued exactly when the      *)
(* command itself shut the VM down, so a VM that ran at the start runs at  *)
(* the end.  vcpu_set has nothing around set_num_cpu: when that call fails *)
(* after the shutdown, no start follows and the VM stays powered off.      *)
(***************************************************************************)
C24_OfflineResizeRestarts ==
    [][(/\ cmd'.op = "vcpu_set"
        /\ vm_defined(World)
        /\ (vmState # "online_reserved" \/ cmd'.flag)
        /\ cmd'.count # inv.num_cpu)
       => LET calls == cmd'.calls
              n == Len(calls)
              order == <<Call("shutdown", NoArg),
                         Call("set_num_cpu", cmd'.count),
                         Call("start", NoArg)>>
              shutDown == n >= 2 /\ calls[1].name = "shutdown"
              started == \E i \in 1..n : calls[i].name = "start"
          IN  /\ (cmd'.offline /\ vmRunning) =>
                    n >= 1 /\ calls = SubSeq(order, 1, n)
              /\ (~cmd'.offline \/ ~vmRunning) =>
                    \A i \in 1..n : calls[i].name \notin {"shutdown", "start"}
              /\ started <=> shutDown
              /\ vmRunning => vmRunning']_vars

(***************************************************************************)
(* C25: vm_sync on a defined VM assigns on the inventory record exactly    *)
(* the attributes whose value reported by the hypervisor differs from the  *)
(* record's, each to the hypervisor's value.  When at least one differs it *)
(* issues exactly one commit, after which (if the commit succeeds) the     *)
(* inventory holds the hypervisor's values, and it reports "is             *)
(* synchronized"; a failing commit leaves the inventory as it was.  When   *)
(* none differs it assigns nothing, commits nothing, reports "already      *)
(* synchronized" and changes nothing.  The hypervisor is never changed.    *)
(***************************************************************************)
C25_SyncWritesOnlyDifferences ==
    [][(cmd'.op = "vm_sync" /\ vm_defined(World))
       => LET differing == {a \in DOMAIN hvAlloc : inv[a] # hvAlloc[a]}
          IN  /\ DOMAIN cmd'.writes = differing
              /\ \A a \in differing : cmd'.writes[a] = hvAlloc[a]
              /\ hvAlloc' = hvAlloc
              /\ differing # {} =>
                    /\ cmd'.calls = <<Call("commit_sync", NoArg)>>
                    /\ IF cmd'.result = Return("None")
                       THEN inv' = hvAlloc /\ cmd'.logged = "is synchronized"
                       ELSE inv' = inv /\ cmd'.result = Raise("DatasetError")
              /\ differing = {} =>
                    /\ cmd'.calls = NoCalls
                    /\ cmd'.result = Return("None")
                    /\ cmd'.logged = "already synchronized"
                    /\ vmWorld' = vmWorld]_vars

\* vm_sync found the memory behind and the disk size in agreement: it
\* assigned memory alone and committed once.
C25_Witness ==
    /\ cmd.op = "vm_sync"
    /\ cmd.calls = <<Call("commit_sync", NoArg)>>
    /\ cmd.result = Return("None")
    /\ DOMAIN cmd.writes = {"memory"}
    /\ inv = hvAlloc

(***************************************************************************)
(* C26: vm_rename on a defined VM calls vm.rename (the redefinition under  *)
(* the new name) only when offline was given and the VM is running, and    *)
(* then it is the only call; for every other combination of offline and    *)
(* running it raises NotImplementedError, calls nothing and changes        *)
(* nothing.                                                                *)
(***************************************************************************)
C26_RenameOnlyOfflineAndRunning ==
    [][(cmd'.op = "vm_rename" /\ vm_defined(World))
       => IF cmd'.offline /\ vmRunning
          THEN /\ cmd'.calls = <<Call("rename", NoArg)>>
               /\ cmd'.result \in {Return("None"), Raise(AbortException)}
          ELSE /\ cmd'.result = Raise("NotImplementedError")
               /\ cmd'.calls = NoCalls
               /\ vmWorld' = vmWorld]_vars

\* vm_rename with offline given found the VM stopped and refused.
C26_Witness ==
    /\ cmd.op = "vm_rename"
    /\ cmd.offline
    /\ vm_defined(World)
    /\ ~vmRunning
    /\ cmd.result = Raise("NotImplementedError")
    /\ cmd.calls = NoCalls

(***************************************************************************)
(* C27: close_virtconns leaves the cache as it is, keys and connection     *)
(* objects alike; no call ever removes a key or rebinds a cached one; and  *)
(* a get_virtconn for a key already cached returns the cached object, in   *)
(* the state the last close_virtconns left it in (closed), without opening *)
(* a channel.                                                              *)
(***************************************************************************)
C27_CloseKeepsCache ==
    [][/\ DOMAIN conns \subseteq DOMAIN conns'
       /\ \A key \in DOMAIN conns : conns'[key] = conns[key]
       /\ lastCall'.op = "close" => conns' = conns
       /\ (/\ lastCall'.op = "get"
           /\ Supported(lastCall'.driver)
           /\ Index(lastCall'.host, lastCall'.driver) \in DOMAIN conns)
          => LET conn == conns[Index(lastCall'.host, lastCall'.driver)]
             IN  /\ lastCall'.result = Return(conn)
                 /\ ~lastCall'.opened
                 /\ handles' = handles
                 /\ handles'[conn].state = handles[conn].state]_vars

\* Right after close_virtconns, get_virtconn returned a cached connection
\* that is closed, and opened nothing.
C27_Witness ==
    /\ prevOp = "close"
    /\ lastCall.op = "get"
    /\ lastCall.result.kind = "return"
    /\ ~lastCall.opened
    /\ handles[lastCall.result.value].state = "closed"
    /\ conns[Index(lastCall.host, lastCall.driver)] = lastCall.result.value

(***************************************************************************)
(* Specifications: one component runs, the others stay as constructed.     *)
(***************************************************************************)
Init == TxInit /\ RunInit /\ ConnInit /\ VmParked
InitAnyVm == TxInit /\ RunInit /\ ConnInit /\ VmInit

TxStep ==
    \/ Enter /\ UNCHANGED <<runVars, connVars, vmVars>>
    \/ /\ \E name \in Names, isCallable \in BOOLEAN :
            OnRollback(name, isCallable)
       /\ UNCHANGED <<runVars, connVars, vmVars>>
    \/ RollbackCall /\ UNCHANGED <<runVars, connVars, vmVars>>
    \/ /\ \E traceback \in BodyFailures \cup {NoFailure} : Exit(traceback)
       /\ UNCHANGED <<runVars, connVars, vmVars>>
SpecTx == Init /\ [][TxStep]_vars

RunStep ==
    \/ Run /\ UNCHANGED <<txVars, connVars, vmVars>>
    \/ FileExists /\ UNCHANGED <<txVars, connVars, vmVars>>
SpecRun == Init /\ [][RunStep]_vars

\* The cache used by one thread: calls do not overlap.
ConnStep ==
    \/ GetVirtconn /\ UNCHANGED <<txVars, runVars, vmVars>>
    \/ CloseVirtconns /\ UNCHANGED <<txVars, runVars, vmVars>>
SpecConn == Init /\ [][ConnStep]_vars

\* get_virtconn called from several threads of one process.
ThreadStep ==
    \/ \E t \in Threads : GvCall(t) /\ UNCHANGED <<txVars, runVars, vmVars>>
    \/ \E t \in Threads : GvOpen(t) /\ UNCHANGED <<txVars, runVars, vmVars>>
    \/ \E t \in Threads : GvStore(t) /\ UNCHANGED <<txVars, runVars, vmVars>>
    \/ \E t \in Threads : GvReturn(t) /\ UNCHANGED <<txVars, runVars, vmVars>>
SpecThreads == Init /\ [][ThreadStep]_vars

VmStep ==
    \/ VcpuSet /\ UNCHANGED <<txVars, runVars, connVars>>
    \/ MemSet /\ UNCHANGED <<txVars, runVars, connVars>>
    \/ DiskSet /\ UNCHANGED <<txVars, runVars, connVars>>
    \/ VmBuild /\ UNCHANGED <<txVars, runVars, connVars>>
    \/ VmRebuild /\ UNCHANGED <<txVars, runVars, connVars>>
    \/ VmStart /\ UNCHANGED <<txVars, runVars, connVars>>
    \/ VmStop /\ UNCHANGED <<txVars, runVars, connVars>>
    \/ VmRestart /\ UNCHANGED <<txVars, runVars, connVars>>
    \/ VmDelete /\ UNCHANGED <<txVars, runVars, connVars>>
    \/ VmSync /\ UNCHANGED <<txVars, runVars, connVars>>
    \/ VmRename /\ UNCHANGED <<txVars, runVars, connVars>>
    \/ NewVM /\ UNCHANGED <<txVars, runVars, connVars>>
    \/ CheckDefined /\ UNCHANGED <<txVars, runVars, connVars>>
SpecVm == InitAnyVm /\ [][VmStep]_vars

====
